---- MODULE Spec2Model ----
(***************************************************************************)
(* Model of the strategy-based queue remedy plugin                         *)
(* (services/remedies/strategy_based_queue_plugin.go): the registry of     *)
(* delayed priority queues guarded by queuesMutex, OnRequest, the          *)
(* requests counter and the requests-in-queue gauge callback.              *)
(*                                                                         *)
(* The package lunar/engine/utils/queue (Strategy, NewRequest,             *)
(* DelayedPriorityQueue) is known here by its callers only; its Enqueue    *)
(* and Counts are modelled from section 4.3 of the specification.          *)
(*                                                                         *)
(* The second part models HubCommunication (src/unnamed/part_000): the     *)
(* discovery workers started by StartDiscoveryWorker, the report boundary  *)
(* computed by calculateTimeToWaitForNextReport, and Stop.                 *)
(***************************************************************************)
EXTENDS Integers, Sequences, FiniteSets, TLC

\* ------------------------------------------------------------------ bounds
NumProcs == 2          \* goroutines calling OnRequest concurrently
MaxCalls == 3          \* OnRequest calls made in all
MaxTime  == 2          \* the clock runs over 0..MaxTime (seconds)
MaxWorkers  == 2       \* StartDiscoveryWorker calls made on the hub
MaxInterval == 2       \* hub.periodicInterval ranges over 1..MaxInterval
MaxHubTime  == 4       \* the hub's clock runs over 0..MaxHubTime

Procs == 1..NumProcs
NilQueue == 0          \* a nil *queue.DelayedPriorityQueue

\* ----------------------------------------------------------- configuration
HeaderName == "x-tier"

\* remedyConfig.Prioritization: nil or {GroupBy.HeaderName, Groups}
NoPrioritization == [set |-> FALSE, header |-> "", groups |-> <<>>]
TierGroups == [v \in {"gold", ""} |-> IF v = "gold" THEN 1 ELSE 2]
TierPrioritization == [set |-> TRUE, header |-> HeaderName, groups |-> TierGroups]

\* The scoped remedies of the gateway configuration OnRequest is called with.
\* cfg = FALSE is a remedy whose Config.StrategyBasedQueue is nil.
Remedies ==
  { [name |-> "a", cfg |-> TRUE,  quota |-> 1, window |-> 2, ttl |-> 2,
     code |-> 429, prio |-> TierPrioritization],
    [name |-> "a", cfg |-> TRUE,  quota |-> 2, window |-> 2, ttl |-> 2,
     code |-> 429, prio |-> NoPrioritization],
    [name |-> "a", cfg |-> TRUE,  quota |-> 1, window |-> 1, ttl |-> 0,
     code |-> 503, prio |-> NoPrioritization],
    [name |-> "b", cfg |-> TRUE,  quota |-> 1, window |-> 2, ttl |-> 2,
     code |-> 429, prio |-> NoPrioritization],
    [name |-> "a", cfg |-> FALSE, quota |-> 0, window |-> 0, ttl |-> 0,
     code |-> 0, prio |-> NoPrioritization] }

NoRemedy == [name |-> "", cfg |-> FALSE, quota |-> 0, window |-> 0, ttl |-> 0,
             code |-> 0, prio |-> NoPrioritization]

\* OnRequest has not returned
NoReturn == [action |-> "", code |-> 0, err |-> ""]

\* onRequest.Headers: a map from header names to values
HeaderMaps ==
  { <<>> } \cup { [n \in {HeaderName} |-> v] : v \in {"gold", "free"} }

VARIABLES
  calls,       \* OnRequest calls started so far
  pc,          \* position of each OnRequest call
  remedy,      \* scopedRemedy of the call
  headers,     \* onRequest.Headers of the call (drawn when first read)
  found,       \* local: found
  inst,        \* local: relevantQueue (instance id, NilQueue = nil)
  priority,    \* local: priority
  enqAt,       \* request.enqueuedAt (NewRequest reads the clock)
  canProceed,  \* local: canProceed
  ret,         \* what OnRequest returned
  queues,      \* plugin.queues: queueKey -> instance id
  insts,       \* the DelayedPriorityQueue instances ever constructed
  createdFor,  \* history: the key each instance was constructed for
  writers,     \* queuesMutex: who is inside Lock() .. Unlock()
  readers,     \* queuesMutex: who is inside RLock() .. RUnlock()
  now,         \* clock.Now()
  incs,        \* metrics.requests: the Add(1, labels) each call has made
  lockOps,     \* history: registry lock acquisitions made by each call
  enqCalls,    \* history: Enqueue calls made by each call
  admitLog,    \* history: <<key, window index>> -> admissions made
  spc,         \* position of the gauge callback
  pending,     \* gauge callback: keys of the range loop not yet visited
  observed,    \* gauge callback: key visited -> Counts() observed in this pass
  periodicInterval,  \* hub.periodicInterval
  clockNow,          \* hub.clock.Now()
  nextReportTime,    \* hub.nextReportTime, shared by all workers of the hub
  workersStop,       \* hub.workersStop: the contexts whose cancel it holds
  ctxDone,           \* the contexts that have been cancelled
  worker,            \* the goroutine of each context: position and locals
  stopped            \* Stop has been called

hubVars == << periodicInterval, clockNow, nextReportTime, workersStop, ctxDone,
              worker, stopped >>

vars == << calls, pc, remedy, headers, found, inst, priority, enqAt, canProceed, ret,
           queues, insts, createdFor, writers, readers, now, incs,
           lockOps, enqCalls, admitLog, spc, pending, observed, hubVars >>

procVars  == << calls, pc, remedy, headers, found, inst, priority, enqAt, canProceed, ret >>
histVars  == << incs, lockOps, enqCalls, admitLog >>
sampVars  == << spc, pending, observed >>

Sampler == NumProcs + 1      \* identity of the gauge callback as a lock holder

\* ------------------------------------------------------------ pure helpers
Min(a, b) == IF a < b THEN a ELSE b

\* Go map read: the zero value when the key is absent
MapGet(m, k, zero) == IF k \in DOMAIN m THEN m[k] ELSE zero

\* queue.Strategy{WindowQuota, WindowSize}
StrategyOf(r) == [quota |-> r.quota, window |-> r.window]

\* mutant: the window size left out of the key
queueKeyWithoutWindow(r) == << r.name, [quota |-> r.quota, window |-> 0] >>

\* queueKey{remedyName, strategy}: compared by value
queueKeyOf(r) == << r.name, StrategyOf(r) >>

\* mutant: the nil check left out
ConfigNeverMissing(r) == FALSE

\* line 73: remedyConfig == nil
ConfigMissing(r) == ~r.cfg

\* extractPriority(onRequest, remedyConfig)
extractPriority(hdrs, r) ==
  IF ~r.prio.set THEN 0
  ELSE LET headerValue == MapGet(hdrs, r.prio.header, "")
       IN  MapGet(r.prio.groups, headerValue, 0)

\* ------------------------------------------- DelayedPriorityQueue (from spec)
\* floor((now - epoch) / windowSize), epoch = 0
WindowIndex(t, window) == t \div window

\* queue.NewDelayedPriorityQueue(strategy, clock, logger)
NewDelayedPriorityQueue(strategy) ==
  [ quota |-> strategy.quota, window |-> strategy.window,
    windowIndex |-> WindowIndex(now, strategy.window),
    admitted |-> 0, wait |-> << >> ]

Deadline(p) == enqAt[p] + remedy[p].ttl

\* mutant: the wait structure is ordered by arrival time alone
BeforeFifoOnly(p, q) == enqAt[p] <= enqAt[q]

\* (priority ascending, arrival time ascending); earlier insertion first on ties
Before(p, q) ==
  \/ priority[p] < priority[q]
  \/ priority[p] = priority[q] /\ enqAt[p] <= enqAt[q]

\* position-preserving insertion of p into the ordered wait list w
RECURSIVE InsertWaiter(_, _)
InsertWaiter(w, p) ==
  IF w = << >> THEN << p >>
  ELSE IF Before(Head(w), p) THEN << Head(w) >> \o InsertWaiter(Tail(w), p)
  ELSE << p >> \o w

\* Rollover of queue q at the current time: reset the count, discard the
\* waiters past their deadline and promote from the head up to the quota.
\* Returns the new queue state and the waiters woken with true / false.
Rolled(q) ==
  LET idx     == WindowIndex(now, q.window)
      live    == SelectSeq(q.wait, LAMBDA p : now < Deadline(p))
      expired == { q.wait[i] : i \in 1..Len(q.wait) } \ { live[i] : i \in 1..Len(live) }
      n       == Min(Len(live), q.quota)
  IN  IF idx = q.windowIndex
      THEN [ q |-> q, woken |-> {}, dropped |-> {} ]
      ELSE [ q |-> [ q EXCEPT !.windowIndex = idx, !.admitted = n,
                              !.wait = SubSeq(live, n + 1, Len(live)) ],
             woken   |-> { live[i] : i \in 1..n },
             dropped |-> expired ]

\* Counts(): waiting requests per priority present in the wait structure
Counts(q) ==
  LET ps == { priority[q.wait[i]] : i \in 1..Len(q.wait) }
  IN  [ pr \in ps |-> Cardinality({ i \in 1..Len(q.wait) : priority[q.wait[i]] = pr }) ]

\* A waiter's wake-up is due: its deadline, or a window boundary of its queue
RolloverDue(i) ==
  /\ insts[i].wait # << >>
  /\ WindowIndex(now, insts[i].window) # insts[i].windowIndex

\* mutant: a parked request has no timer of its own
NeverDue(p) == FALSE

ExpiryDue(p) == pc[p] = "waiting" /\ now >= Deadline(p)

\* ------------------------------------------------------ HubCommunication
WorkerIds == 1..MaxWorkers

Epoch == 0             \* epochTime = time.Unix(0, 0)
NoTime == -1           \* time.Time{}: the zero Time, which lies before the epoch
\* the largest time.Duration (int64 nanoseconds), scaled down: the largest
\* periodicInterval, itself a Duration, just fits
MaxDuration == MaxInterval

\* time.Time.Sub: the difference, saturated to the range of time.Duration
Sub(t, u) ==
  LET d == t - u
  IN  IF d > MaxDuration THEN MaxDuration
      ELSE IF d < -MaxDuration - 1 THEN -MaxDuration - 1
      ELSE d

\* Go integer division: truncation toward zero
GoDiv(a, b) == IF a >= 0 THEN a \div b ELSE -((-a) \div b)

\* lines 122-125: previousReportTime
previousReportTime(currentTime, interval) ==
  Epoch + GoDiv(Sub(currentTime, Epoch), interval) * interval

\* mutant: the interval is not added to the previous report time
staleReportTime(currentTime, interval) ==
  previousReportTime(currentTime, interval)

\* line 126: the value stored in hub.nextReportTime
calculateNextReportTime(currentTime, interval) ==
  previousReportTime(currentTime, interval) + interval

\* lines 121-127, run without interference: the duration returned
calculateTimeToWaitForNextReport(currentTime, interval) ==
  Sub(calculateNextReportTime(currentTime, interval), currentTime)

\* a context for which no goroutine runs
NoWorker ==
  [ pc |-> "none", loc |-> FALSE, currentTime |-> 0, fireAt |-> 0,
    boundary |-> NoTime, readOk |-> FALSE, decodeOk |-> FALSE,
    sent |-> 0, createdAt |-> NoTime ]

\* lines 56-62: the hub as NewHubCommunication leaves it, with interval iv
NewHubCommunication(iv) ==
  /\ periodicInterval = iv
  /\ clockNow = 0
  /\ nextReportTime = NoTime
  /\ workersStop = << >>
  /\ ctxDone = {}
  /\ worker = [w \in WorkerIds |-> NoWorker]
  /\ stopped = FALSE

\* ------------------------------------------------------------------- Init
\* the plugin as NewStrategyBasedQueuePlugin leaves it
PluginInit ==
  /\ calls = 0
  /\ pc = [p \in Procs |-> "idle"]
  /\ remedy = [p \in Procs |-> NoRemedy]
  /\ headers = [p \in Procs |-> << >>]
  /\ found = [p \in Procs |-> FALSE]
  /\ inst = [p \in Procs |-> NilQueue]
  /\ priority = [p \in Procs |-> 0]
  /\ enqAt = [p \in Procs |-> 0]
  /\ canProceed = [p \in Procs |-> FALSE]
  /\ ret = [p \in Procs |-> NoReturn]
  /\ queues = << >>
  /\ insts = << >>
  /\ createdFor = << >>
  /\ writers = {}
  /\ readers = {}
  /\ now = 0
  /\ incs = [p \in Procs |-> << >>]
  /\ lockOps = [p \in Procs |-> 0]
  /\ enqCalls = [p \in Procs |-> 0]
  /\ admitLog = << >>
  /\ spc = "idle"
  /\ pending = {}
  /\ observed = << >>

Init == PluginInit /\ NewHubCommunication(1)

\* --------------------------------------------------------------- OnRequest
\* mutant: the lookup runs without taking the mutex
CanLockUnguarded(p) == TRUE

\* queuesMutex.Lock() returns only when nobody holds the mutex
CanLock(p) == writers = {} /\ readers = {}

\* mutant: the range loop runs without taking the mutex
CanRLockUnguarded == TRUE

\* queuesMutex.RLock() returns only when no writer holds the mutex (a
\* writer that is still waiting in Lock() is not modelled as holding it)
CanRLock == writers = {}

\* mutant: the queue is constructed and stored on a hit too
AlwaysCreate(f) == TRUE

\* line 93: if !found
NeedsCreate(f) == ~f

\* mutant: the mutex is still held when OnRequest goes on to Enqueue
StillLocked(p) == writers

\* line 104: queuesMutex.Unlock()
Unlocked(p) == writers \ {p}

\* mutant: the label carries the outcome instead of its negation
TtlPassedSame(proceed) == proceed

\* lines 119-127: the ttl_passed label of the outcome
TtlPassed(proceed) == ~proceed

\* mutant: the rejection ignores the configured status code
ActionForFixedCode(proceed, r) ==
  IF proceed THEN [action |-> "NoOp", code |-> 0, err |-> "nil"]
  ELSE [action |-> "PlainTextTooManyRequests", code |-> 429, err |-> "nil"]

\* lines 119-134: the action OnRequest returns for an Enqueue outcome
ActionFor(proceed, r) ==
  IF proceed THEN [action |-> "NoOp", code |-> 0, err |-> "nil"]
  ELSE [action |-> "PlainTextTooManyRequests", code |-> r.code, err |-> "nil"]

\* lines 72-90: the nil-config check, then strategy and queueKey are built
Start(p) ==
  /\ pc[p] \in {"idle", "done"}
  /\ calls < MaxCalls
  /\ calls' = calls + 1
  /\ \E r \in Remedies :
       /\ remedy' = [remedy EXCEPT ![p] = r]
       /\ IF ConfigMissing(r)
          THEN /\ pc' = [pc EXCEPT ![p] = "done"]
               /\ ret' = [ret EXCEPT ![p] =
                            [action |-> "NoOp", code |-> 0, err |-> "ErrMissingConfig"]]
          ELSE /\ pc' = [pc EXCEPT ![p] = "lock"]
               /\ ret' = [ret EXCEPT ![p] = NoReturn]
  /\ headers' = [headers EXCEPT ![p] = << >>]
  /\ found' = [found EXCEPT ![p] = FALSE]
  /\ inst' = [inst EXCEPT ![p] = NilQueue]
  /\ priority' = [priority EXCEPT ![p] = 0]
  /\ enqAt' = [enqAt EXCEPT ![p] = 0]
  /\ canProceed' = [canProceed EXCEPT ![p] = FALSE]
  /\ incs' = [incs EXCEPT ![p] = << >>]
  /\ lockOps' = [lockOps EXCEPT ![p] = 0]
  /\ enqCalls' = [enqCalls EXCEPT ![p] = 0]
  /\ UNCHANGED << queues, insts, createdFor, writers, readers, now,
                  admitLog, sampVars, hubVars >>

\* line 91: plugin.queuesMutex.Lock()
Lock(p) ==
  /\ pc[p] = "lock"
  /\ CanLock(p)
  /\ writers' = writers \cup {p}
  /\ lockOps' = [lockOps EXCEPT ![p] = @ + 1]
  /\ pc' = [pc EXCEPT ![p] = "lookup"]
  /\ UNCHANGED << calls, remedy, headers, found, inst, priority, enqAt, canProceed, ret,
                  queues, insts, createdFor, readers, now, incs, enqCalls,
                  admitLog, sampVars, hubVars >>

\* line 92: relevantQueue, found := plugin.queues[queueKey]
Lookup(p) ==
  /\ pc[p] = "lookup"
  /\ LET k == queueKeyOf(remedy[p])
         f == k \in DOMAIN queues
     IN  /\ found' = [found EXCEPT ![p] = f]
         /\ inst' = [inst EXCEPT ![p] = MapGet(queues, k, NilQueue)]
         /\ pc' = [pc EXCEPT ![p] = IF NeedsCreate(f) THEN "create" ELSE "unlock"]
  /\ UNCHANGED << calls, remedy, headers, priority, enqAt, canProceed, ret, queues, insts,
                  createdFor, writers, readers, now, histVars, sampVars, hubVars >>

\* lines 94-102: construct the queue and store it under the key
Create(p) ==
  /\ pc[p] = "create"
  /\ LET k  == queueKeyOf(remedy[p])
         id == Len(insts) + 1
     IN  /\ insts' = Append(insts, NewDelayedPriorityQueue(StrategyOf(remedy[p])))
         /\ createdFor' = Append(createdFor, k)
         /\ queues' = [x \in DOMAIN queues \cup {k} |-> IF x = k THEN id ELSE queues[x]]
         /\ inst' = [inst EXCEPT ![p] = id]
  /\ pc' = [pc EXCEPT ![p] = "unlock"]
  /\ UNCHANGED << calls, remedy, headers, found, priority, enqAt, canProceed, ret, writers,
                  readers, now, histVars, sampVars, hubVars >>

\* line 104: plugin.queuesMutex.Unlock()
Unlock(p) ==
  /\ pc[p] = "unlock"
  /\ writers' = Unlocked(p)
  /\ pc' = [pc EXCEPT ![p] = "extract"]
  /\ UNCHANGED << calls, remedy, headers, found, inst, priority, enqAt, canProceed, ret,
                  queues, insts, createdFor, readers, now, histVars,
                  sampVars, hubVars >>

\* lines 106-110: extractPriority, then NewRequest stamps the arrival time
ExtractPriority(p) ==
  /\ pc[p] = "extract"
  /\ \E h \in IF remedy[p].prio.set THEN HeaderMaps ELSE { << >> } :
       /\ headers' = [headers EXCEPT ![p] = h]
       /\ priority' = [priority EXCEPT ![p] = extractPriority(h, remedy[p])]
  /\ enqAt' = [enqAt EXCEPT ![p] = now]
  /\ pc' = [pc EXCEPT ![p] = "enqueue"]
  /\ UNCHANGED << calls, remedy, found, inst, canProceed, ret, queues, insts, createdFor,
                  writers, readers, now, histVars, sampVars, hubVars >>

\* the admissions log with the requests of `woken` admitted in window idx
Logged(log, woken, idx) ==
  LET new == { << queueKeyOf(remedy[q]), idx >> : q \in woken }
  IN  [ e \in DOMAIN log \cup new |->
          MapGet(log, e, 0) + Cardinality({ q \in woken : queueKeyOf(remedy[q]) = e[1] }) *
                              (IF e \in new THEN 1 ELSE 0) ]

\* What a set of waiters woken by their queue sees: canProceed and the
\* return from Enqueue
Wake(woken, dropped, admitIdx) ==
  /\ canProceed' = [q \in Procs |-> IF q \in woken THEN TRUE
                                    ELSE IF q \in dropped THEN FALSE
                                    ELSE canProceed[q]]
  /\ admitLog' = Logged(admitLog, woken, admitIdx)

\* lines 111-114: relevantQueue.Enqueue(request, ttl), up to its return or
\* to the caller being parked in the wait structure
EnqueueCall(p) ==
  /\ pc[p] = "enqueue"
  /\ inst[p] \in 1..Len(insts)
  /\ LET i   == inst[p]
         r   == Rolled(insts[i])
         q   == r.q
         idx == q.windowIndex
     IN  IF q.admitted < q.quota
         THEN /\ insts' = [insts EXCEPT ![i] = [q EXCEPT !.admitted = @ + 1]]
              /\ Wake(r.woken \cup {p}, r.dropped, idx)
              /\ pc' = [x \in Procs |-> IF x \in r.woken \cup r.dropped \cup {p}
                                        THEN "returned" ELSE pc[x]]
         ELSE IF remedy[p].ttl <= 0
         THEN /\ insts' = [insts EXCEPT ![i] = q]
              /\ Wake(r.woken, r.dropped \cup {p}, idx)
              /\ pc' = [x \in Procs |-> IF x \in r.woken \cup r.dropped \cup {p}
                                        THEN "returned" ELSE pc[x]]
         ELSE /\ insts' = [insts EXCEPT ![i] = [q EXCEPT !.wait = InsertWaiter(@, p)]]
              /\ Wake(r.woken, r.dropped, idx)
              /\ pc' = [x \in Procs |-> IF x \in r.woken \cup r.dropped
                                        THEN "returned"
                                        ELSE IF x = p THEN "waiting" ELSE pc[x]]
  /\ enqCalls' = [enqCalls EXCEPT ![p] = @ + 1]
  /\ UNCHANGED << calls, remedy, headers, found, inst, priority, enqAt, ret, queues,
                  createdFor, writers, readers, now, incs, lockOps,
                  sampVars, hubVars >>

\* the queue's own wake-up at a window boundary while requests wait
Rollover(i) ==
  /\ i \in 1..Len(insts)
  /\ RolloverDue(i)
  /\ LET r == Rolled(insts[i])
     IN  /\ insts' = [insts EXCEPT ![i] = r.q]
         /\ Wake(r.woken, r.dropped, r.q.windowIndex)
         /\ pc' = [x \in Procs |-> IF x \in r.woken \cup r.dropped
                                   THEN "returned" ELSE pc[x]]
  /\ UNCHANGED << calls, remedy, headers, found, inst, priority, enqAt, ret, queues,
                  createdFor, writers, readers, now, incs, lockOps,
                  enqCalls, sampVars, hubVars >>

\* the waiter's own wake-up at its deadline: leave the wait structure, false
Expire(p) ==
  /\ ExpiryDue(p)
  /\ LET i == inst[p]
     IN  insts' = [insts EXCEPT ![i].wait = SelectSeq(@, LAMBDA x : x # p)]
  /\ canProceed' = [canProceed EXCEPT ![p] = FALSE]
  /\ pc' = [pc EXCEPT ![p] = "returned"]
  /\ UNCHANGED << calls, remedy, headers, found, inst, priority, enqAt, ret, queues,
                  createdFor, writers, readers, now, histVars, sampVars, hubVars >>

\* lines 119-127 and 202-216: incrementRequestsMetric(name, priority, ttlPassed)
Increment(p) ==
  /\ pc[p] = "returned"
  /\ LET lab == << remedy[p].name, priority[p], TtlPassed(canProceed[p]) >>
     IN  incs' = [incs EXCEPT ![p] = Append(@, lab)]
  /\ pc' = [pc EXCEPT ![p] = "counted"]
  /\ UNCHANGED << calls, remedy, headers, found, inst, priority, enqAt, canProceed, ret,
                  queues, insts, createdFor, writers, readers, now, lockOps,
                  enqCalls, admitLog, sampVars, hubVars >>

\* lines 125 and 131-134: return the action
Return(p) ==
  /\ pc[p] = "counted"
  /\ ret' = [ret EXCEPT ![p] = ActionFor(canProceed[p], remedy[p])]
  /\ pc' = [pc EXCEPT ![p] = "done"]
  /\ headers' = [headers EXCEPT ![p] = << >>]
  /\ found' = [found EXCEPT ![p] = FALSE]
  /\ inst' = [inst EXCEPT ![p] = NilQueue]
  /\ enqAt' = [enqAt EXCEPT ![p] = 0]
  /\ UNCHANGED << calls, remedy, priority, canProceed, queues,
                  insts, createdFor, writers, readers, now, histVars,
                  sampVars, hubVars >>

\* ------------------------------------------------- observeRequestsInQueue
\* lines 185-186: RLock, held until the deferred RUnlock
SampleBegin ==
  /\ spc = "idle"
  /\ CanRLock
  /\ readers' = readers \cup {Sampler}
  /\ pending' = DOMAIN queues
  /\ spc' = "range"
  /\ UNCHANGED observed
  /\ UNCHANGED << procVars, queues, insts, createdFor, writers, now,
                  histVars, hubVars >>

\* mutant: reading the counts takes the waiting requests out of the queue
SampleQueueDraining ==
  /\ spc = "range"
  /\ \E k \in pending :
       /\ observed' = [x \in DOMAIN observed \cup {k} |->
                          IF x = k THEN Counts(insts[queues[k]]) ELSE observed[x]]
       /\ pending' = pending \ {k}
       /\ insts' = [insts EXCEPT ![queues[k]].wait = << >>]
  /\ UNCHANGED << spc, procVars, queues, createdFor, writers, readers, now,
                  histVars, hubVars >>

\* lines 188-197: one iteration of the range loop: q.Counts() and Observe
SampleQueue ==
  /\ spc = "range"
  /\ \E k \in pending :
       /\ observed' = [x \in DOMAIN observed \cup {k} |->
                          IF x = k THEN Counts(insts[queues[k]]) ELSE observed[x]]
       /\ pending' = pending \ {k}
  /\ UNCHANGED << spc, procVars, queues, insts, createdFor, writers, readers, now,
                  histVars, hubVars >>

\* line 199 and the deferred RUnlock of line 186
SampleEnd ==
  /\ spc = "range"
  /\ pending = {}
  /\ readers' = readers \ {Sampler}
  /\ spc' = "idle"
  /\ observed' = << >>
  /\ UNCHANGED << pending, procVars, queues, insts, createdFor, writers,
                  now, histVars, hubVars >>

\* ------------------------------------------------------------------ clock
\* time passes once every wake-up that is due has been taken
Tick ==
  /\ now < MaxTime
  /\ \A i \in 1..Len(insts) : ~RolloverDue(i)
  /\ \A p \in Procs : ~ExpiryDue(p)
  /\ now' = now + 1
  /\ UNCHANGED << procVars, queues, insts, createdFor, writers, readers,
                  histVars, sampVars, hubVars >>

Next ==
  \/ \E p \in Procs : Start(p)
  \/ \E p \in Procs : Lock(p)
  \/ \E p \in Procs : Lookup(p)
  \/ \E p \in Procs : Create(p)
  \/ \E p \in Procs : Unlock(p)
  \/ \E p \in Procs : ExtractPriority(p)
  \/ \E p \in Procs : EnqueueCall(p)
  \/ \E i \in 1..Len(insts) : Rollover(i)
  \/ \E p \in Procs : Expire(p)
  \/ \E p \in Procs : Increment(p)
  \/ \E p \in Procs : Return(p)
  \/ SampleBegin
  \/ SampleQueue
  \/ SampleEnd
  \/ Tick

Spec == Init /\ [][Next]_vars

\* ------------------------------------------- callers already inside Enqueue
\* The remedies of callers found inside Enqueue: those with a configuration,
\* and one with quota 0, which admits nobody ("always reject").
PendingRemedies ==
  { r \in Remedies : r.cfg } \cup
  { [name |-> "b", cfg |-> TRUE, quota |-> 0, window |-> 2, ttl |-> 1,
     code |-> 429, prio |-> NoPrioritization] }

\* the instance ids of a set of keys, in the order they were stored
KeyOrder(keys) ==
  CHOOSE f \in [1..Cardinality(keys) -> keys] : \A k \in keys : \E i \in DOMAIN f : f[i] = k

\* the wait list of the queue of key k holding the parked callers among 1..n
RECURSIVE WaitersOf(_, _)
WaitersOf(k, n) ==
  IF n = 0 THEN << >>
  ELSE LET w == WaitersOf(k, n - 1)
       IN  IF pc[n] = "waiting" /\ queueKeyOf(remedy[n]) = k
           THEN InsertWaiter(w, n) ELSE w

\* Every goroutine is in OnRequest past the Unlock of line 104: about to
\* build its request, about to call Enqueue, or parked by Enqueue; earlier
\* calls have stored the queues and used up the quota of the current window;
\* no further call arrives.
InitPending ==
  /\ calls = MaxCalls
  /\ remedy \in [Procs -> PendingRemedies]
  /\ pc \in { c \in [Procs -> {"extract", "enqueue", "waiting"}] :
                \A p \in Procs : c[p] = "waiting" => remedy[p].ttl > 0 }
  /\ headers \in { h \in [Procs -> HeaderMaps] :
                     \A p \in Procs :
                       (remedy[p].prio.set /\ pc[p] # "extract") \/ h[p] = << >> }
  /\ found = [p \in Procs |-> TRUE]
  /\ priority = [p \in Procs |-> extractPriority(headers[p], remedy[p])]
  /\ enqAt = [p \in Procs |-> 0]
  /\ canProceed = [p \in Procs |-> FALSE]
  /\ ret = [p \in Procs |-> NoReturn]
  /\ now = 0
  /\ LET keys == { queueKeyOf(remedy[p]) : p \in Procs }
         ord  == KeyOrder(keys)
     IN  /\ createdFor = ord
         /\ queues = [k \in keys |-> CHOOSE i \in DOMAIN ord : ord[i] = k]
         /\ insts = [i \in DOMAIN ord |->
                       [ quota |-> ord[i][2].quota, window |-> ord[i][2].window,
                         windowIndex |-> 0, admitted |-> ord[i][2].quota,
                         wait |-> WaitersOf(ord[i], NumProcs) ]]
         /\ admitLog = [e \in { << k, 0 >> : k \in { x \in keys : x[2].quota > 0 } }
                          |-> e[1][2].quota]
  /\ inst = [p \in Procs |-> queues[queueKeyOf(remedy[p])]]
  /\ writers = {}
  /\ readers = {}
  /\ incs = [p \in Procs |-> << >>]
  /\ lockOps = [p \in Procs |-> 1]
  /\ enqCalls = [p \in Procs |-> IF pc[p] = "waiting" THEN 1 ELSE 0]
  /\ spc = "idle"
  /\ pending = {}
  /\ observed = << >>
  /\ NewHubCommunication(1)

NextPending ==
  \/ \E p \in Procs : ExtractPriority(p)
  \/ \E p \in Procs : EnqueueCall(p)
  \/ \E i \in 1..Len(insts) : Rollover(i)
  \/ \E p \in Procs : Expire(p)
  \/ \E p \in Procs : Increment(p)
  \/ \E p \in Procs : Return(p)
  \/ SampleBegin
  \/ SampleQueue
  \/ SampleEnd
  \/ Tick

SpecPending == InitPending /\ [][NextPending]_vars

\* Scheduling: a goroutine that is at its call of Enqueue makes it, the
\* timers of the queue (window boundary, deadline) fire when due, and time
\* passes.
PendingFairness ==
  /\ WF_vars(Tick)
  /\ \A p \in Procs : WF_vars(EnqueueCall(p))
  /\ \A p \in Procs : WF_vars(Expire(p))
  /\ \A i \in 1..NumProcs : WF_vars(Rollover(i))

SpecPendingFair == SpecPending /\ PendingFairness

\* ------------------------------------------------ HubCommunication: steps
pluginVars == << procVars, queues, insts, createdFor, writers, readers, now,
                 histVars, sampVars >>

\* lines 71-82: a context is made and its cancel kept; the goroutine is
\* started only when the discovery state location is set
StartDiscoveryWorker ==
  /\ ~stopped
  /\ Len(workersStop) < MaxWorkers
  /\ LET ctx == Len(workersStop) + 1
     IN  /\ workersStop' = Append(workersStop, ctx)
         /\ \E located \in BOOLEAN :
              worker' = [worker EXCEPT ![ctx] =
                           IF located
                           THEN [NoWorker EXCEPT !.pc = "calculate", !.loc = TRUE]
                           ELSE NoWorker]
  /\ UNCHANGED << periodicInterval, clockNow, nextReportTime, ctxDone, stopped,
                  pluginVars >>

\* lines 84 and 121-126: the clock is read and hub.nextReportTime is stored
CalculateNextReport(w) ==
  /\ worker[w].pc = "calculate"
  /\ LET next == calculateNextReportTime(clockNow, periodicInterval)
     IN  /\ nextReportTime' = next
         /\ worker' = [worker EXCEPT ![w] =
                         [@ EXCEPT !.pc = "wait", !.currentTime = clockNow,
                                   !.boundary = next, !.readOk = FALSE,
                                   !.decodeOk = FALSE, !.sent = 0,
                                   !.createdAt = NoTime]]
  /\ UNCHANGED << periodicInterval, clockNow, workersStop, ctxDone, stopped,
                  pluginVars >>

\* lines 127 and 85-89: hub.nextReportTime is read back for the duration
\* returned, and the select starts its timer
WaitForNextReport(w) ==
  /\ worker[w].pc = "wait"
  /\ LET timeToWait == Sub(nextReportTime, worker[w].currentTime)
     IN  worker' = [worker EXCEPT ![w] =
                      [@ EXCEPT !.pc = "select", !.fireAt = clockNow + timeToWait]]
  /\ UNCHANGED << periodicInterval, clockNow, nextReportTime, workersStop, ctxDone,
                  stopped, pluginVars >>

\* lines 86-88: case <-ctx.Done(): return
CtxDone(w) ==
  /\ worker[w].pc = "select"
  /\ w \in ctxDone
  /\ worker' = [worker EXCEPT ![w] = [@ EXCEPT !.pc = "exited"]]
  /\ UNCHANGED << periodicInterval, clockNow, nextReportTime, workersStop, ctxDone,
                  stopped, pluginVars >>

\* lines 89-95: case <-time.After(...): os.ReadFile, continue on an error
ReadFile(w) ==
  /\ worker[w].pc = "select"
  /\ clockNow >= worker[w].fireAt
  /\ \E ok \in BOOLEAN :
       worker' = [worker EXCEPT ![w] =
                    [@ EXCEPT !.pc = IF ok THEN "unmarshal" ELSE "calculate",
                              !.readOk = ok]]
  /\ UNCHANGED << periodicInterval, clockNow, nextReportTime, workersStop, ctxDone,
                  stopped, pluginVars >>

\* lines 97-103: json.Unmarshal, continue on an error
Unmarshal(w) ==
  /\ worker[w].pc = "unmarshal"
  /\ \E ok \in BOOLEAN :
       worker' = [worker EXCEPT ![w] =
                    [@ EXCEPT !.pc = IF ok THEN "stamp" ELSE "calculate",
                              !.decodeOk = ok]]
  /\ UNCHANGED << periodicInterval, clockNow, nextReportTime, workersStop, ctxDone,
                  stopped, pluginVars >>

\* line 104: output.CreatedAt is read from hub.nextReportTime
StampCreatedAt(w) ==
  /\ worker[w].pc = "stamp"
  /\ worker' = [worker EXCEPT ![w] =
                  [@ EXCEPT !.pc = "send", !.createdAt = nextReportTime]]
  /\ UNCHANGED << periodicInterval, clockNow, nextReportTime, workersStop, ctxDone,
                  stopped, pluginVars >>

\* lines 105-115: hub.client.Send; an error is logged and the loop goes on
Send(w) ==
  /\ worker[w].pc = "send"
  /\ \E ok \in BOOLEAN :
       worker' = [worker EXCEPT ![w] =
                    [@ EXCEPT !.pc = "calculate",
                              !.sent = IF ok THEN @ + 1 ELSE @]]
  /\ UNCHANGED << periodicInterval, clockNow, nextReportTime, workersStop, ctxDone,
                  stopped, pluginVars >>

\* mutant: only the cancel appended last is called
StopLastOnly ==
  /\ ~stopped
  /\ ctxDone' = ctxDone \cup (IF workersStop = << >> THEN {}
                              ELSE { workersStop[Len(workersStop)] })
  /\ stopped' = TRUE
  /\ UNCHANGED << periodicInterval, clockNow, nextReportTime, workersStop, worker,
                  pluginVars >>

\* lines 130-136: every cancel of hub.workersStop is called
Stop ==
  /\ ~stopped
  /\ ctxDone' = ctxDone \cup { workersStop[i] : i \in 1..Len(workersStop) }
  /\ stopped' = TRUE
  /\ UNCHANGED << periodicInterval, clockNow, nextReportTime, workersStop, worker,
                  pluginVars >>

\* the hub's clock
ClockTick ==
  /\ clockNow < MaxHubTime
  /\ clockNow' = clockNow + 1
  /\ UNCHANGED << periodicInterval, nextReportTime, workersStop, ctxDone, worker,
                  stopped, pluginVars >>

InitHub == PluginInit /\ \E iv \in 1..MaxInterval : NewHubCommunication(iv)

NextHub ==
  \/ StartDiscoveryWorker
  \/ \E w \in WorkerIds : CalculateNextReport(w)
  \/ \E w \in WorkerIds : WaitForNextReport(w)
  \/ \E w \in WorkerIds : CtxDone(w)
  \/ \E w \in WorkerIds : ReadFile(w)
  \/ \E w \in WorkerIds : Unmarshal(w)
  \/ \E w \in WorkerIds : StampCreatedAt(w)
  \/ \E w \in WorkerIds : Send(w)
  \/ Stop
  \/ ClockTick

SpecHub == InitHub /\ [][NextHub]_vars

\* the steps of a worker that wait for nothing
WorkerStep(w) ==
  \/ CalculateNextReport(w)
  \/ WaitForNextReport(w)
  \/ Unmarshal(w)
  \/ StampCreatedAt(w)
  \/ Send(w)

\* Scheduling: a worker goroutine that can take its next step takes it, and
\* a select that is entered again and again with the context cancelled takes
\* the ctx.Done() case (select chooses among its ready cases at random).
HubFairness ==
  \A w \in WorkerIds :
    /\ WF_vars(WorkerStep(w))
    /\ SF_vars(CtxDone(w))

SpecHubFair == SpecHub /\ HubFairness

\* ------------------------------------------------------------- properties
InRegistry  == {"lookup", "create", "unlock"}     \* between Lock and Unlock
Resolved    == {"extract", "enqueue", "waiting", "returned", "counted"}
BeforeCount == {"lock", "lookup", "create", "unlock", "extract", "enqueue",
                "waiting", "returned"}

SameKey(r1, r2) ==
  r1.name = r2.name /\ r1.quota = r2.quota /\ r1.window = r2.window

Label(p) == << remedy[p].name, priority[p], ~canProceed[p] >>

\* C1: for every key exactly one queue is ever constructed and stored, also
\* when several callers race on the first use of the key, and every caller
\* with that key goes on to Enqueue on that one instance.
C1_OneQueuePerKey ==
  /\ \A i, j \in 1..Len(createdFor) : createdFor[i] = createdFor[j] => i = j
  /\ \A k \in DOMAIN queues : queues[k] \in 1..Len(insts) /\ createdFor[queues[k]] = k
  /\ \A p \in Procs : pc[p] \in Resolved \ {"returned", "counted"} =>
       /\ queueKeyOf(remedy[p]) \in DOMAIN queues
       /\ inst[p] = queues[queueKeyOf(remedy[p])]
  /\ \A p, q \in Procs :
       (pc[p] \in Resolved /\ pc[q] \in Resolved /\ SameKey(remedy[p], remedy[q]))
         => inst[p] = inst[q]

\* two callers race on the first use of a key: one is constructing the
\* queue, the other is at the mutex
C1_Witness ==
  \E p, q \in Procs :
    /\ p # q /\ SameKey(remedy[p], remedy[q])
    /\ pc[p] = "create" /\ pc[q] = "lock"

\* C2: in every window of every key the number of admitted requests
\* (immediately or by promotion) is at most the quota of the strategy.
C2_QuotaBound ==
  \A e \in DOMAIN admitLog : admitLog[e] <= e[1][2].quota

\* the quota of the current window is used up and a request waits
C2_Witness ==
  \E p \in Procs :
    /\ pc[p] = "waiting"
    /\ LET e == << queueKeyOf(remedy[p]), WindowIndex(now, remedy[p].window) >>
       IN  e \in DOMAIN admitLog /\ admitLog[e] = remedy[p].quota

\* C3: a call that reaches Enqueue increments the requests counter exactly
\* once, after Enqueue has returned and before OnRequest returns, labelled
\* with remedy name, priority and ttl_passed = not canProceed.
C3_CountedOnce ==
  \A p \in Procs :
    /\ pc[p] \in BeforeCount => incs[p] = << >>
    /\ (pc[p] = "counted" \/ (pc[p] = "done" /\ enqCalls[p] > 0)) =>
         /\ enqCalls[p] = 1
         /\ incs[p] = << Label(p) >>

\* a call whose request expired has returned with one increment, ttl_passed
C3_Witness ==
  \E p \in Procs :
    /\ pc[p] = "done" /\ enqCalls[p] = 1 /\ ~canProceed[p]
    /\ incs[p] = << << remedy[p].name, priority[p], TRUE >> >>

\* C4: with a configuration present OnRequest returns the pass-through
\* action iff Enqueue returned true and the rejection with the configured
\* status code iff it returned false, both with a nil error.
C4_ActionMatchesOutcome ==
  \A p \in Procs :
    (pc[p] = "done" /\ remedy[p].cfg) =>
      /\ ret[p].err = "nil"
      /\ canProceed[p]  <=> ret[p].action = "NoOp"
      /\ ~canProceed[p] <=> (ret[p].action = "PlainTextTooManyRequests"
                             /\ ret[p].code = remedy[p].code)

\* a rejection carrying a configured status code other than the default
C4_Witness ==
  \E p \in Procs :
    /\ pc[p] = "done" /\ remedy[p].cfg /\ ~canProceed[p]
    /\ ret[p].code = 503

\* C5: without a configuration OnRequest returns ErrMissingConfig at once:
\* it never takes the registry lock, never calls Enqueue and never counts.
C5_MissingConfig ==
  \A p \in Procs :
    (pc[p] # "idle" /\ ~remedy[p].cfg) =>
      /\ pc[p] = "done"
      /\ ret[p] = [action |-> "NoOp", code |-> 0, err |-> "ErrMissingConfig"]
      /\ lockOps[p] = 0 /\ enqCalls[p] = 0 /\ incs[p] = << >>
      /\ p \notin writers

\* a call without configuration has returned while the registry holds queues
C5_Witness ==
  \E p \in Procs :
    /\ pc[p] = "done" /\ ~remedy[p].cfg /\ ret[p].err = "ErrMissingConfig"
    /\ DOMAIN queues # {}

\* the priority the claim C6 expects: the table's entry for the header's
\* value, and 0 when no prioritization is configured, the header is absent
\* or its value is no key of the table
ClaimedPriority(hdrs, r) ==
  IF r.prio.set /\ r.prio.header \in DOMAIN hdrs
     /\ hdrs[r.prio.header] \in DOMAIN r.prio.groups
  THEN r.prio.groups[hdrs[r.prio.header]]
  ELSE 0

\* C6: the priority passed to Enqueue is the table's entry for the header's
\* value, and 0 whenever there is no such mapping (no prioritization, header
\* absent, value not in the table).
C6_PriorityFromHeader ==
  \A p \in Procs :
    pc[p] \in {"enqueue", "waiting", "returned", "counted"} =>
      priority[p] = ClaimedPriority(headers[p], remedy[p])

\* C7: two calls are routed to the same queue instance iff their remedy
\* names, quotas and window sizes are all equal.
C7_SameQueueIffSameKey ==
  \A p, q \in Procs :
    (pc[p] \in Resolved /\ pc[q] \in Resolved) =>
      (inst[p] = inst[q] <=> SameKey(remedy[p], remedy[q]))

\* two calls whose keys differ in the window size only use different queues
C7_Witness ==
  \E p, q \in Procs :
    /\ pc[p] \in Resolved /\ pc[q] \in Resolved
    /\ remedy[p].name = remedy[q].name /\ remedy[p].quota = remedy[q].quota
    /\ remedy[p].window # remedy[q].window
    /\ inst[p] # inst[q]

\* C8 as stated: a caller whose key is already in the registry does not
\* have to wait for another such caller to leave the critical section.
C8_FastPathUnblocked ==
  \A p, q \in Procs :
    ( /\ p # q
      /\ pc[p] \in InRegistry /\ queueKeyOf(remedy[p]) \in DOMAIN queues /\ found[p]
      /\ pc[q] = "lock" /\ queueKeyOf(remedy[q]) \in DOMAIN queues )
    => CanLock(q)

\* C8 amended: the lookup is made under the exclusive lock also on a hit:
\* at most one caller is between Lock and Unlock, and it is the holder.
C8_LookupExclusive ==
  /\ \A p, q \in Procs : (pc[p] \in InRegistry /\ pc[q] \in InRegistry) => p = q
  /\ writers = { p \in Procs : pc[p] \in InRegistry }

\* a hit is being resolved while another caller with a present key waits
C8_Witness ==
  \E p, q \in Procs :
    /\ p # q
    /\ pc[p] = "unlock" /\ found[p]
    /\ pc[q] = "lock" /\ queueKeyOf(remedy[q]) \in DOMAIN queues
    /\ ~CanLock(q)

\* C9: a caller inside Enqueue, parked or not, holds no registry lock.
C9_NoLockWhileWaiting ==
  \A p \in Procs :
    pc[p] \in {"enqueue", "waiting"} => (p \notin writers /\ p \notin readers)

\* while p waits on its queue a caller with another key can take the
\* registry lock and the gauge callback can start a pass
C9_Witness ==
  \E p, q \in Procs :
    /\ pc[p] = "waiting"
    /\ pc[q] = "lock" /\ ~SameKey(remedy[p], remedy[q])
    /\ CanLock(q) /\ CanRLock /\ spc = "idle"

\* C10 as stated: while a sampling pass is under way it holds no lock that
\* makes an OnRequest wait for the end of the pass.
C10_SamplingBlocksNobody ==
  \A q \in Procs :
    (spc = "range" /\ pc[q] = "lock" /\ writers = {}) => CanLock(q)

\* C10 amended: the pass holds the registry read lock from its start to
\* its end, over all queues: during the pass no OnRequest is between Lock
\* and Unlock.
C10_SamplingHoldsReadLock ==
  spc = "range" =>
    /\ Sampler \in readers
    /\ writers = {}
    /\ \A q \in Procs : pc[q] \notin InRegistry

\* in the middle of a pass over two queues a caller of another remedy is
\* kept at the mutex
C10_Witness ==
  /\ spc = "range"
  /\ pending # {} /\ pending # DOMAIN queues
  /\ \E q \in Procs :
       /\ pc[q] = "lock"
       /\ \A k \in DOMAIN queues : k[1] # remedy[q].name
       /\ ~CanLock(q)

\* the requests waiting with priority pr in all queues of the remedy `name`
PairWaiting(name, pr) ==
  Cardinality({ p \in Procs : /\ pc[p] = "waiting"
                              /\ remedy[p].name = name
                              /\ priority[p] = pr })

\* C11: every value a sampling pass observes under the attributes
\* (remedy name, priority) is the number of requests waiting for that pair,
\* also with several queues of one remedy name in the registry, and a pair
\* with no waiting request is not observed.
C11_GaugePerPair ==
  [][ \A k \in DOMAIN observed' \ DOMAIN observed :
        \A pr \in DOMAIN observed'[k] :
          /\ PairWaiting(k[1], pr) > 0
          /\ observed'[k][pr] = PairWaiting(k[1], pr) ]_vars

\* q is ahead of p in the admission order of the claim C12
StrictlyAhead(q, p) ==
  \/ priority[q] < priority[p]
  \/ priority[q] = priority[p] /\ enqAt[q] < enqAt[p]

C13_EnqueueReturns ==
  /\ [](\A p \in Procs : pc[p] = "waiting" => remedy[p].ttl > 0)
  /\ [][ \A p \in Procs :
           /\ (pc[p] = "waiting" /\ pc'[p] # "waiting") =>
                /\ pc'[p] = "returned"
                /\ canProceed'[p] \/ now >= Deadline(p)
           /\ (pc[p] = "waiting" /\ now' > now) => now < Deadline(p) ]_vars
  /\ \A p \in Procs :
       (pc[p] \in {"enqueue", "waiting"} /\ Deadline(p) <= MaxTime)
         ~> (pc[p] = "returned")

\* a request parked on a queue of quota 0 has returned false at its deadline
\* while no other call was at Enqueue
C13_Witness ==
  \E p \in Procs :
    /\ pc[p] = "returned" /\ ~canProceed[p] /\ enqCalls[p] = 1
    /\ remedy[p].quota = 0 /\ remedy[p].ttl > 0 /\ now = Deadline(p)
    /\ \A q \in Procs : pc[q] # "enqueue"

\* C14: a step of a sampling pass changes no admission state: the registry,
\* the queues constructed, every queue's admitted count and wait structure,
\* the admissions made and the position and outcome of every OnRequest call
\* are as before the step.
C14_SamplingChangesNothing ==
  [][ (sampVars' # sampVars) =>
        UNCHANGED << queues, insts, createdFor, admitLog, procVars >> ]_vars

\* a pass has read the counts of a queue on which a request is waiting
C14_Witness ==
  /\ spc = "range"
  /\ \E k \in DOMAIN observed :
       /\ observed[k] # << >>
       /\ \E p \in Procs : pc[p] = "waiting" /\ queueKeyOf(remedy[p]) = k

\* C15: the registry is append-only: no step removes a key or replaces the
\* instance stored for it, and no instance ever constructed is dropped.
C15_RegistryAppendOnly ==
  [][ /\ \A k \in DOMAIN queues : k \in DOMAIN queues' /\ queues'[k] = queues[k]
      /\ Len(insts') >= Len(insts)
      /\ \A i \in DOMAIN createdFor : createdFor'[i] = createdFor[i] ]_vars

\* with two keys stored, a later call has found its key and a sampling pass
\* is under way
C15_Witness ==
  /\ Cardinality(DOMAIN queues) >= 2
  /\ spc = "range"
  /\ \E p \in Procs : pc[p] = "extract" /\ found[p]

\* the instants epoch + k*interval, as far as the clock's range needs them
Boundaries(interval) == { Epoch + k * interval : k \in 0..(MaxHubTime + 2) }

SmallestBoundaryAfter(t, interval) ==
  CHOOSE b \in Boundaries(interval) :
    b > t /\ \A c \in Boundaries(interval) : c > t => b <= c

\* what the claim C16 says of a call made at time t
NextBoundaryAt(t, interval) ==
  LET next == calculateNextReportTime(t, interval)
      wait == calculateTimeToWaitForNextReport(t, interval)
  IN  /\ next = SmallestBoundaryAfter(t, interval)
      /\ wait = next - t
      /\ wait > 0 /\ wait <= interval
      /\ (t - Epoch) % interval = 0 => wait = interval

C17_OneStampedMessagePerCycle ==
  \A w \in WorkerIds :
    /\ worker[w].sent <= 1
    /\ worker[w].pc \in {"stamp", "send"} \/ worker[w].sent = 1 =>
         worker[w].readOk /\ worker[w].decodeOk
    /\ worker[w].pc = "send" \/ worker[w].sent = 1 =>
         worker[w].createdAt = worker[w].boundary
    /\ worker[w].pc = "exited" => w \in ctxDone

\* C18: a worker leaves its loop only when its context is cancelled, a
\* StartDiscoveryWorker call that finds no location starts no goroutine, and
\* once Stop has been called every worker that was started terminates.
C18_WorkersStopOnStop ==
  /\ [](\A w \in WorkerIds :
          /\ worker[w].pc = "exited" => w \in ctxDone
          /\ ~worker[w].loc => worker[w].pc = "none")
  /\ \A w \in WorkerIds :
       (stopped /\ worker[w].pc # "none") ~> (worker[w].pc = "exited")

\* after Stop a worker has terminated, and the call that found no location
\* has left a cancelled context without goroutine
C18_Witness ==
  /\ stopped
  /\ \E w \in WorkerIds : worker[w].pc = "exited"
  /\ \E v \in WorkerIds : v \in ctxDone /\ ~worker[v].loc /\ worker[v].pc = "none"

====
